---------------------------- MODULE Spec2Model ----------------------------
(***************************************************************************)
(* A model of the two PDF -> Markdown pipelines of this repository:        *)
(*   src/pdf_to_markdown_full_ocr.py                 (full-page vision)    *)
(*   src/pdf_to_markdown_with_image_descriptions.py  (image descriptions)  *)
(*                                                                         *)
(* Four specifications share the module, one per routine under study:      *)
(*   SpecCap   image_bytes_with_size_cap                                   *)
(*   SpecCtx   build_surrounding_context                                   *)
(*   SpecNorm  the blank-line normalisation loop                           *)
(*   Spec      main() / pdf_to_markdown_full_vision and the second         *)
(*             pipeline's main() / pdf_to_markdown_with_image_text         *)
(* Text is a sequence of one-character strings.  The external codecs and   *)
(* the model call are nondeterministic: an encode yields any byte length,  *)
(* a call returns any short text or raises.                                *)
(***************************************************************************)
EXTENDS Integers, Sequences, FiniteSets, TLC

VARIABLES
    \* ---- image_bytes_with_size_cap ----
    pil_img,        \* the bitmap passed in: [w, h, mode]
    max_bytes,      \* argument max_bytes
    q_start,        \* argument q_start
    q_min,          \* argument q_min
    downscale_floor_px, \* argument downscale_floor_px
    cpc,            \* position in the function
    png_data,       \* the PNG payload (line 95), None before it exists
    jpeg_img,       \* the result of _ensure_rgb (line 100), None before
    q,              \* the loop variable of line 101
    tried,          \* JPEG encodes made by the loop: <<[q, len], ...>>
    data,           \* the local `data` (lines 104, 117), None while unbound
    resized,        \* the resized bitmap (line 114), None before
    ops,            \* the calls made on the image library, in order
    ret,            \* the returned [bytes, mime], None before the return
    \* ---- build_surrounding_context ----
    CONTEXT_BEFORE_CHARS,   \* module global (line 31), set from the environment
    CONTEXT_AFTER_CHARS,    \* module global (line 32)
    MAX_CONTEXT_CHARS,      \* module global (line 33)
    markdown,       \* argument markdown
    start_idx,      \* argument start_idx (0-based, as match.start())
    end_idx,        \* argument end_idx (0-based exclusive, as match.end())
    context,        \* the returned string
    xpc,            \* position in the function
    \* ---- the blank-line normalisation of pdf_to_markdown_full_vision ----
    norm_in,        \* the joined, stripped text the loop starts from
    norm_out,       \* final_md after the loop
    norm_again,     \* the loop applied to its own output
    npc,            \* how many times the loop has been applied
    \* ---- the two command-line programs ----
    script,         \* which program runs: "full_ocr" or "image_descriptions"
    PROJECT_ENDPOINT,   \* whether the environment variable is set (non-empty)
    isfile,         \* os.path.isfile(input_pdf)
    total,          \* doc.page_count
    start,          \* --start: <<>> for None, <<n>> for n
    end_arg,        \* --end: <<>> for None, <<n>> for n
    add_page_headings,  \* not --no-page-headings
    rpc,            \* position in the program
    client,         \* "unset", "ready" or "none" (client = None, line 214)
    s_page,         \* the local s of pdf_to_markdown_full_vision (line 199)
    e_page,         \* the local e (line 200)
    page_i,         \* the loop index i (line 209)
    sections,       \* the list sections (line 208)
    outcomes,       \* what happened to each processed item, in order
    events,         \* renders, cappings and model calls made, in order
    final_md,       \* the text handed to the output file
    error,          \* the exception that ended the run, "" when none
    exit_code,      \* the process exit status, -1 while running
    output_file,    \* <<>> while not written, <<text>> once written
    md,             \* the Markdown returned by convert_pdf_to_markdown
    all_matches,    \* list(IMAGE_DATAURI_PATTERN.finditer(markdown)) (line 153)
    idx,            \* the 1-based index of the image being processed
    parts,          \* the list parts (line 149)
    last,           \* the local last (line 150)
    contexts        \* the context built for each image, in order

capVars == <<pil_img, max_bytes, q_start, q_min, downscale_floor_px, cpc,
             png_data, jpeg_img, q, tried, data, resized, ops, ret>>

ctxVars == <<CONTEXT_BEFORE_CHARS, CONTEXT_AFTER_CHARS, MAX_CONTEXT_CHARS,
             markdown, start_idx, end_idx, context, xpc>>

normVars == <<norm_in, norm_out, norm_again, npc>>

runVars == <<script, PROJECT_ENDPOINT, isfile, total, start, end_arg,
             add_page_headings, rpc, client, s_page, e_page, page_i, sections,
             outcomes, events, final_md, error, exit_code, output_file,
             md, all_matches, idx, parts, last, contexts>>

vars == <<capVars, ctxVars, normVars, runVars>>

None == [none |-> TRUE]

\* The variables of a routine that is not running.
CapIdle ==
    /\ pil_img = None /\ max_bytes = 0 /\ q_start = 0 /\ q_min = 0
    /\ downscale_floor_px = 0 /\ cpc = "idle" /\ png_data = None
    /\ jpeg_img = None /\ q = 0 /\ tried = <<>> /\ data = None
    /\ resized = None /\ ops = <<>> /\ ret = None

CtxIdle ==
    /\ CONTEXT_BEFORE_CHARS = 0 /\ CONTEXT_AFTER_CHARS = 0
    /\ MAX_CONTEXT_CHARS = 0 /\ markdown = <<>> /\ start_idx = 0
    /\ end_idx = 0 /\ context = <<>> /\ xpc = "idle"

NormIdle ==
    /\ norm_in = <<>> /\ norm_out = <<>> /\ norm_again = <<>> /\ npc = "idle"

RunIdle ==
    /\ script = "none" /\ PROJECT_ENDPOINT = FALSE /\ isfile = FALSE
    /\ total = 0 /\ start = <<>> /\ end_arg = <<>>
    /\ add_page_headings = FALSE /\ rpc = "idle" /\ client = "unset"
    /\ s_page = 0 /\ e_page = 0 /\ page_i = 0 /\ sections = <<>>
    /\ outcomes = <<>> /\ events = <<>> /\ final_md = <<>> /\ error = ""
    /\ exit_code = -1 /\ output_file = <<>> /\ md = <<>>
    /\ all_matches = <<>> /\ idx = 0 /\ parts = <<>> /\ last = 0
    /\ contexts = <<>>

Max(a, b) == IF a >= b THEN a ELSE b
Min(a, b) == IF a <= b THEN a ELSE b

(***************************************************************************)
(* Bounds of the model.                                                    *)
(***************************************************************************)
MaxEdge  == 2      \* bitmap width and height range over 1..MaxEdge
MaxBytes == 2      \* the byte budget ranges over 1..MaxBytes
MaxFloor == 2      \* downscale_floor_px ranges over 1..MaxFloor
MaxLen   == MaxBytes + 1   \* an encode yields 1..MaxLen bytes
MaxChunks   == 3   \* a document text is made of at most MaxChunks chunks
SmallWindow == 3   \* a context window shorter than any image marker
SmallCap    == 20  \* a context cap that short documents exceed
MaxNormLen  == 7   \* the normalisation loop runs on texts of <= MaxNormLen chars
MaxPages    == 4   \* a PDF has 0..MaxPages pages
MaxDocChunks == 3  \* the converted Markdown is made of <= MaxDocChunks chunks

(***************************************************************************)
(* Program constants (src/pdf_to_markdown_full_ocr.py).                    *)
(***************************************************************************)
JPEG_QUALITY_START == 85
MIN_JPEG_QUALITY   == 35
QualityStep        == 10     \* the -10 of range(q_start, q_min - 1, -10)
ResizeQualityFloor == 70     \* the 70 of max(70, q_min)

Modes == {"RGB", "RGBA", "P", "L"}

\* _ensure_rgb: alpha and palette modes are pasted on a white RGB background of
\* the same size, any other non-RGB mode is converted, RGB is returned as is.
_ensure_rgb(img) ==
    IF img.mode \in {"RGBA", "LA", "P"}
    THEN [w |-> img.w, h |-> img.h, mode |-> "RGB"]
    ELSE IF img.mode # "RGB"
         THEN [w |-> img.w, h |-> img.h, mode |-> "RGB"]
         ELSE img

\* len(png_data) <= max_bytes (line 96)
PngFits_Strict(n, cap) == n < cap
PngFits(n, cap) == n <= cap

\* len(data) <= max_bytes (line 105)
JpegFits_Always(n, cap) == TRUE
JpegFits(n, cap) == n <= cap

\* int(edge * max((max_bytes / last_len) ** 0.5, 0.2)), in exact arithmetic:
\* the factor is 0.2 when max_bytes / last_len < 0.04, and otherwise the result
\* is the largest n with n^2 * last_len <= edge^2 * max_bytes.
ScaledEdge(edge, cap, last_len) ==
    IF 25 * cap < last_len
    THEN edge \div 5
    ELSE CHOOSE n \in 0..(edge * (cap + 1)) :
            /\ n * n * last_len <= edge * edge * cap
            /\ (n + 1) * (n + 1) * last_len > edge * edge * cap

\* new_w / new_h (lines 112-113): max(downscale_floor_px, int(edge * scale))
NewEdge_Min(edge, cap, last_len, floor_px) ==
    Min(floor_px, ScaledEdge(edge, cap, last_len))
NewEdge(edge, cap, last_len, floor_px) ==
    Max(floor_px, ScaledEdge(edge, cap, last_len))

Payload(enc, quality, img, n) ==
    [enc |-> enc, quality |-> quality, w |-> img.w, h |-> img.h, len |-> n]

InitCap ==
    /\ pil_img \in [w : 1..MaxEdge, h : 1..MaxEdge, mode : Modes]
    /\ max_bytes \in 1..MaxBytes
    /\ q_start \in {JPEG_QUALITY_START, 45, 25}
    /\ q_min = MIN_JPEG_QUALITY
    /\ downscale_floor_px \in 1..MaxFloor
    /\ cpc = "png"
    /\ png_data = None
    /\ jpeg_img = None
    /\ q = 0
    /\ tried = <<>>
    /\ data = None
    /\ resized = None
    /\ ops = <<>>
    /\ ret = None
    /\ CtxIdle
    /\ NormIdle
    /\ RunIdle

\* Lines 93-97: encode as PNG and return it when it fits.
CapSavePNG ==
    /\ cpc = "png"
    /\ \E n \in 1..MaxLen :
        /\ png_data' = Payload("PNG", 0, pil_img, n)
        /\ ops' = Append(ops, "save_png")
        /\ IF PngFits(n, max_bytes)
           THEN /\ ret' = [bytes |-> png_data', mime |-> "image/png"]
                /\ cpc' = "returned"
           ELSE /\ ret' = ret
                /\ cpc' = "ensure_rgb"
    /\ UNCHANGED <<pil_img, max_bytes, q_start, q_min, downscale_floor_px,
                   jpeg_img, q, tried, data, resized>>
    /\ UNCHANGED <<ctxVars, normVars, runVars>>

\* Line 100, and the first value of range(q_start, q_min - 1, -10).
CapEnsureRGB ==
    /\ cpc = "ensure_rgb"
    /\ jpeg_img' = _ensure_rgb(pil_img)
    /\ ops' = Append(ops, "ensure_rgb")
    /\ q' = q_start
    /\ cpc' = "jpeg_loop"
    /\ UNCHANGED <<pil_img, max_bytes, q_start, q_min, downscale_floor_px,
                   png_data, tried, data, resized, ret>>
    /\ UNCHANGED <<ctxVars, normVars, runVars>>

\* Lines 101-106: one iteration of the quality loop.
CapSaveJPEG ==
    /\ cpc = "jpeg_loop"
    /\ q > q_min - 1
    /\ \E n \in 1..MaxLen :
        /\ data' = Payload("JPEG", q, jpeg_img, n)
        /\ tried' = Append(tried, [q |-> q, len |-> n])
        /\ ops' = Append(ops, "save_jpeg")
        /\ IF JpegFits(n, max_bytes)
           THEN /\ ret' = [bytes |-> data', mime |-> "image/jpeg"]
                /\ cpc' = "returned"
                /\ q' = q
           ELSE /\ ret' = ret
                /\ cpc' = "jpeg_loop"
                /\ q' = q - QualityStep
    /\ UNCHANGED <<pil_img, max_bytes, q_start, q_min, downscale_floor_px,
                   png_data, jpeg_img, resized>>
    /\ UNCHANGED <<ctxVars, normVars, runVars>>

\* Line 110 when the loop body never ran: `data` is unbound and len(data)
\* raises UnboundLocalError.
CapUnbound ==
    /\ cpc = "jpeg_loop"
    /\ ~(q > q_min - 1)
    /\ data = None
    /\ cpc' = "raised"
    /\ UNCHANGED <<pil_img, max_bytes, q_start, q_min, downscale_floor_px,
                   png_data, jpeg_img, q, tried, data, resized, ops, ret>>
    /\ UNCHANGED <<ctxVars, normVars, runVars>>

\* Lines 110-120: one resize, one re-encode, returned whatever its size.
CapDownscale ==
    /\ cpc = "jpeg_loop"
    /\ ~(q > q_min - 1)
    /\ data # None
    /\ LET last_len == data.len
           new_w == NewEdge(jpeg_img.w, max_bytes, last_len, downscale_floor_px)
           new_h == NewEdge(jpeg_img.h, max_bytes, last_len, downscale_floor_px)
       IN /\ resized' = [w |-> new_w, h |-> new_h, mode |-> jpeg_img.mode]
          /\ \E n \in 1..MaxLen :
                data' = Payload("JPEG", Max(ResizeQualityFloor, q_min), resized', n)
    /\ ops' = ops \o <<"resize", "save_jpeg">>
    /\ ret' = [bytes |-> data', mime |-> "image/jpeg"]
    /\ cpc' = "returned"
    /\ UNCHANGED <<pil_img, max_bytes, q_start, q_min, downscale_floor_px,
                   png_data, jpeg_img, q, tried>>
    /\ UNCHANGED <<ctxVars, normVars, runVars>>

NextCap ==
    \/ CapSavePNG
    \/ CapEnsureRGB
    \/ CapSaveJPEG
    \/ CapUnbound
    \/ CapDownscale

SpecCap == InitCap /\ [][NextCap]_vars

(***************************************************************************)
(* Claims about image_bytes_with_size_cap (checked under SpecCap).         *)
(***************************************************************************)
Count(seq, x) == Cardinality({i \in DOMAIN seq : seq[i] = x})

RECURSIVE QualityLevels(_, _)
\* list(range(qs, qm - 1, -10)) as the claims read it: qs, qs - 10, ... while >= qm
QualityLevels(qs, qm) ==
    IF qs < qm THEN <<>> ELSE <<qs>> \o QualityLevels(qs - 10, qm)

\* The final step of the function made the returned payload: the last two
\* library calls are the resize and the re-encode of the resized bitmap.
FromFinalStep ==
    /\ resized # None
    /\ Len(ops) >= 2
    /\ ops[Len(ops) - 1] = "resize"
    /\ ops[Len(ops)] = "save_jpeg"
    /\ ret.bytes = data
    /\ ret.bytes.w = resized.w
    /\ ret.bytes.h = resized.h

\* C1: a returned payload is within max_bytes or is the output of the final
\* resize-and-re-encode step; the PNG encoding and the JPEG encodings of the
\* quality loop are never returned when they exceed max_bytes.
C1_CappedOrFinalStep ==
    cpc = "returned" =>
        /\ (ret.bytes.len <= max_bytes \/ FromFinalStep)
        /\ (ret.bytes.enc = "PNG" => ret.bytes.len <= max_bytes)
        /\ (resized = None => ret.bytes.len <= max_bytes)

\* The soft overage happens: the final step's payload is returned over budget.
C1_Witness ==
    /\ cpc = "returned"
    /\ FromFinalStep
    /\ ret.bytes.len > max_bytes

\* C2: when the PNG encoding fits the budget, exactly those PNG bytes are
\* returned tagged image/png, and saving the PNG is the only call made: no
\* colour-mode conversion, no JPEG encode, no resize.
C2_PngPreferred ==
    (png_data # None /\ png_data.len <= max_bytes) =>
        /\ cpc = "returned"
        /\ ret = [bytes |-> png_data, mime |-> "image/png"]
        /\ ops = <<"save_png">>
        /\ jpeg_img = None
        /\ tried = <<>>
        /\ resized = None

\* A PNG of exactly max_bytes bytes has been returned.
C2_Witness ==
    /\ cpc = "returned"
    /\ png_data # None
    /\ png_data.len = max_bytes
    /\ ret.bytes = png_data

\* The PNG and every level of the (non-empty) descending quality sequence were
\* encoded, in order, and every encoding exceeded the budget.
AllEncodingsOver ==
    LET levels == QualityLevels(q_start, q_min)
    IN /\ png_data # None
       /\ png_data.len > max_bytes
       /\ Len(levels) > 0
       /\ Len(tried) = Len(levels)
       /\ \A i \in DOMAIN tried :
            /\ tried[i].q = levels[i]
            /\ tried[i].len > max_bytes

\* C10: when the PNG and the JPEG at every quality level from q_start down
\* to q_min (a non-empty sequence, tried in strictly descending order) all exceed
\* the budget, the function resizes exactly once and re-encodes exactly once,
\* with both resized edges >= downscale_floor_px, and returns that payload
\* whatever its size; nothing runs after the return.
C10_DownscaleOnce ==
    AllEncodingsOver =>
        /\ cpc \in {"jpeg_loop", "returned"}
        /\ \A i \in 1..(Len(tried) - 1) : tried[i].q > tried[i + 1].q
        /\ cpc = "jpeg_loop" => (ENABLED CapDownscale /\ ~ENABLED CapSaveJPEG
                                   /\ ~ENABLED CapUnbound)
        /\ cpc = "returned" =>
            /\ FromFinalStep
            /\ Count(ops, "resize") = 1
            /\ Count(ops, "save_jpeg") = Len(tried) + 1
            /\ ops[Len(ops) - 1] = "resize"
            /\ resized.w >= downscale_floor_px
            /\ resized.h >= downscale_floor_px
            /\ ret.mime = "image/jpeg"
            /\ ~ENABLED NextCap

\* The function has returned the resized payload, still over budget, after
\* every quality level failed.
C10_Witness ==
    /\ AllEncodingsOver
    /\ cpc = "returned"
    /\ Len(tried) > 1
    /\ ret.bytes.len > max_bytes

\* C12: the resize of lines 110-114 is a true downscale: for every bitmap
\* that reaches it, the resized width is at most the source width and the
\* resized height at most the source height.
C12_TrueDownscale ==
    resized # None =>
        /\ resized.w <= jpeg_img.w
        /\ resized.h <= jpeg_img.h

(***************************************************************************)
(* Text: a Python str is a sequence of one-character strings.  Offsets are *)
(* 0-based as in Python; t[a:b] is Slice(t, a, b).                         *)
(***************************************************************************)
Slice(t, a, b) == SubSeq(t, a + 1, b)

Lower == {"a", "b", "c", "d", "e", "f", "g", "h", "i", "j", "k", "l", "m", "n", "o", "p", "q", "r", "s", "t", "u", "v", "w", "x", "y", "z"}
Upper == {"A", "B", "C", "D", "E", "F", "G", "H", "I", "J", "K", "L", "M", "N", "O", "P", "Q", "R", "S", "T", "U", "V", "W", "X", "Y", "Z"}
Digit == {"0", "1", "2", "3", "4", "5", "6", "7", "8", "9"}

\* \s of the re module, ASCII part
Whitespace == {" ", "\t", "\n", "\r", "\f"}

\* [a-zA-Z0-9.+-]
TypeChars == Lower \cup Upper \cup Digit \cup {".", "+", "-"}

\* [A-Za-z0-9+/=\r\n]
B64Chars == Upper \cup Lower \cup Digit \cup {"+", "/", "=", "\r", "\n"}

DataImageLit == <<"d", "a", "t", "a", ":", "i", "m", "a", "g", "e", "/">>
Base64Lit == <<";", "b", "a", "s", "e", "6", "4", ",">>
ImagePlaceholder == <<"[", "I", "m", "a", "g", "e", "]">>
ImageRefPlaceholder == <<"[", "I", "m", "a", "g", "e", "R", "e", "f", "]">>
LocationMarker == <<"[", "I", "M", "A", "G", "E", " ", "L", "O", "C", "A", "T", "I", "O", "N", "]">>
\* the one character U+2026 appended by line 83
Ellipsis == "U+2026"

\* The 1-based index of the first c at or after `from`, 0 when there is none.
FirstIdx(t, from, c) ==
    IF \E k \in from..Len(t) : t[k] = c
    THEN CHOOSE k \in from..Len(t) :
            t[k] = c /\ \A m \in from..(k - 1) : t[m] # c
    ELSE 0

\* The last index of the longest run of characters of `class` starting at p
\* (p - 1 when the run is empty).
RunEnd(t, p, class) ==
    CHOOSE u \in (p - 1)..Len(t) :
        /\ \A m \in p..u : t[m] \in class
        /\ (u < Len(t) => t[u + 1] \notin class)

HasLit(t, p, l) ==
    /\ p + Len(l) - 1 <= Len(t)
    /\ \A m \in 1..Len(l) : t[p + m - 1] = l[m]

\* The index of the "(" that follows the first "]" after "![" at i: the common
\* prefix  !\[[^\]]*\]\(  of both patterns; 0 when it does not match at i.
AltEnd(t, i) ==
    IF i + 1 <= Len(t) /\ t[i] = "!" /\ t[i + 1] = "["
    THEN LET j == FirstIdx(t, i + 2, "]")
         IN IF j # 0 /\ j + 1 <= Len(t) /\ t[j + 1] = "(" THEN j + 1 ELSE 0
    ELSE 0

\* re.match of  !\[[^\]]*\]\([^)]+\)  (line 59) at 1-based index i: the
\* index of the last matched character, 0 when there is no match at i.
GenericEnd(t, i) ==
    LET o == AltEnd(t, i)
    IN IF o = 0 THEN 0
       ELSE LET k == FirstIdx(t, o + 1, ")")
            IN IF k >= o + 2 THEN k ELSE 0

\* re.match of IMAGE_DATAURI_PATTERN (lines 36-39) at 1-based index i.  Every
\* repetition is followed by a character outside its class, so the greedy
\* match is the only one.
DataUriEnd(t, i) ==
    LET o == AltEnd(t, i)
    IN IF o = 0 \/ ~HasLit(t, o + 1, DataImageLit) THEN 0
       ELSE LET p == o + 1 + Len(DataImageLit)
                r == RunEnd(t, p, TypeChars)
            IN IF r < p \/ ~HasLit(t, r + 1, Base64Lit) THEN 0
               ELSE LET b == r + 1 + Len(Base64Lit)
                        u == RunEnd(t, b, B64Chars)
                    IN IF u >= b /\ u + 1 <= Len(t) /\ t[u + 1] = ")"
                       THEN u + 1
                       ELSE 0

MatchEnd(pattern, t, i) ==
    IF pattern = "datauri" THEN DataUriEnd(t, i) ELSE GenericEnd(t, i)

\* pattern.search(t) is not None
Contains(pattern, t) == \E i \in 1..Len(t) : MatchEnd(pattern, t, i) # 0

\* The 1-based start of the leftmost match at or after pos, 0 when none.
NextMatch(pattern, t, pos) ==
    IF \E i \in pos..Len(t) : MatchEnd(pattern, t, i) # 0
    THEN CHOOSE i \in pos..Len(t) :
            /\ MatchEnd(pattern, t, i) # 0
            /\ \A m \in pos..(i - 1) : MatchEnd(pattern, t, m) = 0
    ELSE 0

RECURSIVE FindIterFrom(_, _, _)
\* pattern.finditer(t) from 1-based position pos: the matches, leftmost first and
\* not overlapping, as [start, end] with Python's 0-based start and exclusive end.
FindIterFrom(pattern, t, pos) ==
    LET i == NextMatch(pattern, t, pos)
    IN IF i = 0 THEN <<>>
       ELSE LET e == MatchEnd(pattern, t, i)
            IN <<[start |-> i - 1, end |-> e]>> \o FindIterFrom(pattern, t, e + 1)

RECURSIVE SubFrom(_, _, _, _)
\* pattern.sub(repl, t): every match replaced, the rest copied, in one pass.
SubFrom(pattern, t, pos, repl) ==
    LET i == NextMatch(pattern, t, pos)
    IN IF i = 0 THEN SubSeq(t, pos, Len(t))
       ELSE SubSeq(t, pos, i - 1) \o repl
                \o SubFrom(pattern, t, MatchEnd(pattern, t, i) + 1, repl)

\* strip_images_from_text (lines 54-60)
strip_images_from_text(text) ==
    SubFrom("generic", SubFrom("datauri", text, 1, ImagePlaceholder), 1,
            ImageRefPlaceholder)

RECURSIVE CollapseFrom(_, _)
\* re.sub(r"\s+", " ", t): each run of whitespace becomes one space
CollapseFrom(t, pos) ==
    IF \E i \in pos..Len(t) : t[i] \in Whitespace
    THEN LET i == CHOOSE k \in pos..Len(t) :
                    t[k] \in Whitespace /\ \A m \in pos..(k - 1) : t[m] \notin Whitespace
         IN SubSeq(t, pos, i - 1) \o <<" ">>
                \o CollapseFrom(t, RunEnd(t, i, Whitespace) + 1)
    ELSE SubSeq(t, pos, Len(t))

\* str.strip()
Strip(t) ==
    IF \A k \in 1..Len(t) : t[k] \in Whitespace THEN <<>>
    ELSE LET a == CHOOSE k \in 1..Len(t) :
                    t[k] \notin Whitespace /\ \A m \in 1..(k - 1) : t[m] \in Whitespace
             b == CHOOSE k \in 1..Len(t) :
                    t[k] \notin Whitespace /\ \A m \in (k + 1)..Len(t) : t[m] \in Whitespace
         IN SubSeq(t, a, b)

\* collapse_whitespace (lines 62-64)
collapse_whitespace(text) == Strip(CollapseFrom(text, 1))

\* The safety cap of lines 82-83.
SafetyCap(ctx, cap) ==
    IF Len(ctx) > cap THEN SubSeq(ctx, 1, cap) \o <<Ellipsis>> ELSE ctx

\* build_surrounding_context (lines 66-84), with the module globals as arguments
build_surrounding_context(doc, s_idx, e_idx, n_before, n_after, cap) ==
    LET before == strip_images_from_text(Slice(doc, Max(0, s_idx - n_before), s_idx))
        after  == strip_images_from_text(Slice(doc, e_idx, Min(Len(doc), e_idx + n_after)))
        joined == before \o <<" ">> \o LocationMarker \o <<" ">> \o after
    IN SafetyCap(collapse_whitespace(joined), cap)

(***************************************************************************)
(* build_surrounding_context, called as replace_images_with_text calls it  *)
(* (line 170): on a document and the span of one data-URI image match.     *)
(***************************************************************************)
\* Defaults of the three module globals (lines 31-33).
DefaultContextBefore == 400
DefaultContextAfter  == 400
DefaultMaxContext    == 1000

\* Pieces of Markdown a document is made of: an embedded data-URI image, an
\* image link, fragments of image syntax, text and white space.
ImageChunk == <<"!", "[", "]", "(", "d", "a", "t", "a", ":", "i", "m", "a", "g", "e", "/", "p", ";", "b", "a", "s", "e", "6", "4", ",", "A", ")">>
LinkChunk  == <<"!", "[", "]", "(", "u", ")">>
Chunks ==
    { ImageChunk, LinkChunk, <<"!">>, <<"!", "[", "]", "(">>, <<"u", ")">>,
      <<"(", "v", ")">>, <<"x">>, <<" ">> }

RECURSIVE Concat(_)
Concat(ss) == IF ss = <<>> THEN <<>> ELSE Head(ss) \o Concat(Tail(ss))

Documents ==
    { Concat(cs) : cs \in UNION { [1..n -> Chunks] : n \in 0..MaxChunks } }

Range(f) == { f[i] : i \in DOMAIN f }

InitCtx ==
    /\ markdown \in Documents
    /\ \E m \in Range(FindIterFrom("datauri", markdown, 1)) :
        /\ start_idx = m.start
        /\ end_idx = m.end
    /\ CONTEXT_BEFORE_CHARS \in {0, SmallWindow, DefaultContextBefore}
    /\ CONTEXT_AFTER_CHARS \in {0, SmallWindow, DefaultContextAfter}
    /\ MAX_CONTEXT_CHARS \in {SmallCap, DefaultMaxContext}
    /\ context = <<>>
    /\ xpc = "call"
    /\ CapIdle
    /\ NormIdle
    /\ RunIdle

\* Lines 66-84, the whole call.
CtxBuild ==
    /\ xpc = "call"
    /\ context' = build_surrounding_context(markdown, start_idx, end_idx,
                        CONTEXT_BEFORE_CHARS, CONTEXT_AFTER_CHARS, MAX_CONTEXT_CHARS)
    /\ xpc' = "returned"
    /\ UNCHANGED <<CONTEXT_BEFORE_CHARS, CONTEXT_AFTER_CHARS, MAX_CONTEXT_CHARS,
                   markdown, start_idx, end_idx>>
    /\ UNCHANGED <<capVars, normVars, runVars>>

NextCtx == CtxBuild

SpecCtx == InitCtx /\ [][NextCtx]_vars

\* C3: for every document and every in-bounds image span, the returned
\* context has at most MAX_CONTEXT_CHARS characters.
C3_LengthCapped ==
    xpc = "returned" => Len(context) <= MAX_CONTEXT_CHARS

\* C9: for every document and every in-bounds image span, the returned
\* context contains no image-marker syntax: no match of the data-URI image
\* pattern and no match of the generic image-link pattern ![...](...).
C9_NoImageSyntax ==
    xpc = "returned" =>
        /\ ~Contains("datauri", context)
        /\ ~Contains("generic", context)

(***************************************************************************)
(* The blank-line normalisation of pdf_to_markdown_full_vision             *)
(* (lines 232-233), as a function of the text it is given.                 *)
(***************************************************************************)
Newline3 == <<"\n", "\n", "\n">>
Newline2 == <<"\n", "\n">>

\* "\n\n\n" in t
HasTripleNewline(t) == \E i \in 1..(Len(t) - 2) : HasLit(t, i, Newline3)

RECURSIVE ReplaceFrom(_, _)
\* t.replace("\n\n\n", "\n\n"): the occurrences are taken left to right and do
\* not overlap.
ReplaceFrom(t, pos) ==
    IF \E i \in pos..(Len(t) - 2) : HasLit(t, i, Newline3)
    THEN LET i == CHOOSE k \in pos..(Len(t) - 2) :
                    HasLit(t, k, Newline3)
                    /\ \A m \in pos..(k - 1) : ~HasLit(t, m, Newline3)
         IN SubSeq(t, pos, i - 1) \o Newline2 \o ReplaceFrom(t, i + 3)
    ELSE SubSeq(t, pos, Len(t))

\* One replace and no loop.
NormalizeOnce(t) == ReplaceFrom(t, 1)

RECURSIVE NormalizePass(_)
\* while "\n\n\n" in final_md: final_md = final_md.replace("\n\n\n", "\n\n")
NormalizePass(t) ==
    IF HasTripleNewline(t) THEN NormalizePass(ReplaceFrom(t, 1)) ELSE t

NormTexts == UNION { [1..n -> {"a", "\n"}] : n \in 0..MaxNormLen }

InitNorm ==
    /\ norm_in \in NormTexts
    /\ norm_out = <<>>
    /\ norm_again = <<>>
    /\ npc = "start"
    /\ CapIdle
    /\ CtxIdle
    /\ RunIdle

\* The pass applied to a text.
NormApply ==
    /\ npc = "start"
    /\ norm_out' = NormalizePass(norm_in)
    /\ npc' = "once"
    /\ UNCHANGED <<norm_in, norm_again>>
    /\ UNCHANGED <<capVars, ctxVars, runVars>>

\* The pass applied to its own output.
NormApplyAgain ==
    /\ npc = "once"
    /\ norm_again' = NormalizePass(norm_out)
    /\ npc' = "twice"
    /\ UNCHANGED <<norm_in, norm_out>>
    /\ UNCHANGED <<capVars, ctxVars, runVars>>

NextNorm ==
    \/ NormApply
    \/ NormApplyAgain

SpecNorm == InitNorm /\ [][NextNorm]_vars

\* C6: the normalisation pass is idempotent: applied to its own output it
\* returns that output unchanged; and its output holds no run of three
\* consecutive newlines.
C6_NormalizeIdempotent ==
    /\ npc = "twice" => norm_again = norm_out
    /\ npc \in {"once", "twice"} =>
        ~\E i \in 1..(Len(norm_out) - 2) :
            norm_out[i] = "\n" /\ norm_out[i + 1] = "\n" /\ norm_out[i + 2] = "\n"

\* The pass has been applied twice to a text whose run of five newlines
\* needs more than one replace.
C6_Witness ==
    /\ npc = "twice"
    /\ \E i \in 1..(Len(norm_in) - 4) :
            \A k \in 0..4 : norm_in[i + k] = "\n"
    /\ Len(norm_out) < Len(norm_in)

(***************************************************************************)
(* The two programs: main() of each script and the pipeline it runs.       *)
(***************************************************************************)
PageHeadingLit == <<"#", "#", " ", "P", "a", "g", "e", " ">>
PlaceholderBody == <<"_", "E", "r", "r", "o", "r", " ", "e", "x", "t", "r", "a", "c", "t", "i", "n", "g", " ", "t", "h", "i", "s", " ", "p", "a", "g", "e", ".", " ", "T", "r", "y", " ", "l", "o", "w", "e", "r", "i", "n", "g", " ", "D", "P", "I", " ", "o", "r", " ", "t", "o", "k", "e", "n", "s", " ", "a", "n", "d", " ", "r", "e", "-", "r", "u", "n", ".", "_">>
ImageBlockLit == <<">", " ", "I", "m", "a", "g", "e", ":", " ">>
UnavailableLit == <<"[", "d", "e", "s", "c", "r", "i", "p", "t", "i", "o", "n", " ", "u", "n", "a", "v", "a", "i", "l", "a", "b", "l", "e", "]">>
BlankLine == <<"\n", "\n">>
DigitChars == <<"0", "1", "2", "3", "4", "5", "6", "7", "8", "9">>

RECURSIVE ToStr(_)
\* str(n) for n >= 0
ToStr(n) ==
    IF n < 10 THEN <<DigitChars[n + 1]>>
    ELSE ToStr(n \div 10) \o <<DigitChars[(n % 10) + 1]>>

RECURSIVE Join(_, _)
\* sep.join(ss)
Join(ss, sep) ==
    IF ss = <<>> THEN <<>>
    ELSE IF Len(ss) = 1 THEN ss[1]
    ELSE ss[1] \o sep \o Join(Tail(ss), sep)

\* get_openai_client raises RuntimeError (lines 55-56 and 43-44)
EndpointMissing_Never(endpoint) == FALSE
EndpointMissing(endpoint) == ~endpoint

\* s and e of lines 199-200
ClampStart(a) == IF a = <<>> THEN 1 ELSE Max(1, a[1])
ClampEnd(b, n) == IF b = <<>> THEN n ELSE Min(b[1], n)

\* if s > e (line 201)
InvalidRange_Never(a, b) == FALSE
InvalidRange(a, b) == a > b

\* the first i of range(s - 1, e) (line 209)
FirstIndex_OffByOne(a) == a
FirstIndex(a) == a - 1

\* the placeholder of line 224
Placeholder(page_num) ==
    PageHeadingLit \o ToStr(page_num) \o BlankLine \o PlaceholderBody

\* lines 218-220: the fragment of a page whose extraction succeeded
OnPageDone(secs, page_num, text, headings) ==
    Append(secs, IF headings
                 THEN Strip(PageHeadingLit \o ToStr(page_num) \o BlankLine \o text)
                 ELSE text)

\* lines 222-225: the fragment of a page whose processing raised
OnPageError_Skip(secs, page_num) == secs
OnPageError(secs, page_num) == Append(secs, Placeholder(page_num))

\* What extract_page_markdown can return: the model's text, stripped and with
\* its IMAGE: prefixes normalised (lines 181-182).
PageResponses ==
    { <<>>, <<"a", "\n", "\n", "\n", "\n", "b">> }

\* What describe_image can return: the model's text, stripped (line 136).
ImageResponses == { <<>>, <<"d">> }

\* What convert_pdf_to_markdown can return.
DocChunks == { ImageChunk, LinkChunk, <<"x">> }
ConvertedDocs ==
    { Concat(cs) : cs \in UNION { [1..n -> DocChunks] : n \in 0..MaxDocChunks } }

OptionalPage == {<<>>} \cup { <<n>> : n \in 0..(MaxPages + 1) }

Init ==
    /\ script \in {"full_ocr", "image_descriptions"}
    /\ PROJECT_ENDPOINT \in BOOLEAN
    /\ isfile \in BOOLEAN
    /\ IF script = "full_ocr"
       THEN /\ total \in 0..MaxPages
            /\ start \in OptionalPage
            /\ end_arg \in OptionalPage
            /\ add_page_headings \in BOOLEAN
       ELSE /\ total = 0
            /\ start = <<>>
            /\ end_arg = <<>>
            /\ add_page_headings = FALSE
    /\ rpc = "main"
    /\ client = "unset"
    /\ s_page = 0 /\ e_page = 0 /\ page_i = 0
    /\ sections = <<>> /\ outcomes = <<>> /\ events = <<>>
    /\ final_md = <<>> /\ error = "" /\ exit_code = -1 /\ output_file = <<>>
    /\ md = <<>> /\ all_matches = <<>> /\ idx = 0 /\ parts = <<>> /\ last = 0
    /\ contexts = <<>>
    /\ CapIdle
    /\ CtxIdle
    /\ NormIdle

\* Both scripts: the input is not a file (full_ocr lines 252-254,
\* image_descriptions lines 238-240): exit status 1.
MainFileNotFound ==
    /\ rpc = "main"
    /\ ~isfile
    /\ error' = "FileNotFound"
    /\ exit_code' = 1
    /\ rpc' = "exit"
    /\ UNCHANGED <<script, PROJECT_ENDPOINT, isfile, total, start, end_arg,
                   add_page_headings, client, s_page, e_page, page_i, sections,
                   outcomes, events, final_md, output_file, md, all_matches,
                   idx, parts, last, contexts>>
    /\ UNCHANGED <<capVars, ctxVars, normVars>>

\* full_ocr line 194: get_openai_client(); its RuntimeError, or an exception of
\* the Azure client construction (lines 57-61), is caught by main (lines
\* 266-268), which exits with status 2.
VisionGetClient ==
    /\ script = "full_ocr"
    /\ rpc = "main"
    /\ isfile
    /\ IF EndpointMissing(PROJECT_ENDPOINT)
       THEN /\ error' = "RuntimeError"
            /\ exit_code' = 2
            /\ rpc' = "exit"
            /\ client' = client
       ELSE \/ /\ client' = "ready"
               /\ rpc' = "open"
               /\ UNCHANGED <<error, exit_code>>
            \/ /\ error' = "ClientError"
               /\ exit_code' = 2
               /\ rpc' = "exit"
               /\ client' = client
    /\ UNCHANGED <<script, PROJECT_ENDPOINT, isfile, total, start, end_arg,
                   add_page_headings, s_page, e_page, page_i, sections,
                   outcomes, events, final_md, output_file, md, all_matches,
                   idx, parts, last, contexts>>
    /\ UNCHANGED <<capVars, ctxVars, normVars>>

\* full_ocr line 197: fitz.open raises on an unreadable file; caught by main.
VisionOpenFails ==
    /\ script = "full_ocr"
    /\ rpc = "open"
    /\ error' = "OpenError"
    /\ exit_code' = 2
    /\ rpc' = "exit"
    /\ UNCHANGED <<script, PROJECT_ENDPOINT, isfile, total, start, end_arg,
                   add_page_headings, client, s_page, e_page, page_i, sections,
                   outcomes, events, final_md, output_file, md, all_matches,
                   idx, parts, last, contexts>>
    /\ UNCHANGED <<capVars, ctxVars, normVars>>

\* full_ocr lines 197-209: open the document, clamp the range, raise ValueError
\* on an invalid one (caught by main: exit status 2), else enter the loop.
VisionOpen ==
    /\ script = "full_ocr"
    /\ rpc = "open"
    /\ s_page' = ClampStart(start)
    /\ e_page' = ClampEnd(end_arg, total)
    /\ IF InvalidRange(s_page', e_page')
       THEN /\ error' = "ValueError"
            /\ exit_code' = 2
            /\ rpc' = "exit"
            /\ page_i' = page_i
       ELSE /\ page_i' = FirstIndex(s_page')
            /\ rpc' = "loop"
            /\ UNCHANGED <<error, exit_code>>
    /\ UNCHANGED <<script, PROJECT_ENDPOINT, isfile, total, start, end_arg,
                   add_page_headings, client, sections, outcomes, events,
                   final_md, output_file, md, all_matches, idx, parts, last,
                   contexts>>
    /\ UNCHANGED <<capVars, ctxVars, normVars>>

Event(ev, item) == [ev |-> ev, item |-> item]
Outcome(item, result) == [item |-> item, result |-> result]

\* One iteration of the loop of lines 209-225 in which page_to_capped_data_url
\* raises while rendering (load_page, get_pixmap, Image.open).
VisionPageRenderRaises ==
    /\ script = "full_ocr"
    /\ rpc = "loop"
    /\ page_i < e_page
    /\ LET page_num == page_i + 1
       IN /\ events' = Append(events, Event("render", page_num))
          /\ sections' = OnPageError(sections, page_num)
          /\ outcomes' = Append(outcomes, Outcome(page_num, "render_raised"))
    /\ page_i' = page_i + 1
    /\ UNCHANGED <<script, PROJECT_ENDPOINT, isfile, total, start, end_arg,
                   add_page_headings, rpc, client, s_page, e_page, final_md,
                   error, exit_code, output_file, md, all_matches, idx, parts,
                   last, contexts>>
    /\ UNCHANGED <<capVars, ctxVars, normVars>>

\* One iteration in which image_bytes_with_size_cap raises.
VisionPageCapRaises ==
    /\ script = "full_ocr"
    /\ rpc = "loop"
    /\ page_i < e_page
    /\ LET page_num == page_i + 1
       IN /\ events' = events \o <<Event("render", page_num), Event("cap", page_num)>>
          /\ sections' = OnPageError(sections, page_num)
          /\ outcomes' = Append(outcomes, Outcome(page_num, "cap_raised"))
    /\ page_i' = page_i + 1
    /\ UNCHANGED <<script, PROJECT_ENDPOINT, isfile, total, start, end_arg,
                   add_page_headings, rpc, client, s_page, e_page, final_md,
                   error, exit_code, output_file, md, all_matches, idx, parts,
                   last, contexts>>
    /\ UNCHANGED <<capVars, ctxVars, normVars>>

\* One iteration in which extract_page_markdown raises (the model call, or a
\* response without choices).
VisionPageCallRaises ==
    /\ script = "full_ocr"
    /\ rpc = "loop"
    /\ page_i < e_page
    /\ LET page_num == page_i + 1
       IN /\ events' = events \o <<Event("render", page_num), Event("cap", page_num),
                                   Event("call", page_num)>>
          /\ sections' = OnPageError(sections, page_num)
          /\ outcomes' = Append(outcomes, Outcome(page_num, "call_raised"))
    /\ page_i' = page_i + 1
    /\ UNCHANGED <<script, PROJECT_ENDPOINT, isfile, total, start, end_arg,
                   add_page_headings, rpc, client, s_page, e_page, final_md,
                   error, exit_code, output_file, md, all_matches, idx, parts,
                   last, contexts>>
    /\ UNCHANGED <<capVars, ctxVars, normVars>>

\* One iteration that succeeds (lines 213-221).
VisionPageDone ==
    /\ script = "full_ocr"
    /\ rpc = "loop"
    /\ page_i < e_page
    /\ \E text \in PageResponses :
        LET page_num == page_i + 1
        IN /\ events' = events \o <<Event("render", page_num), Event("cap", page_num),
                                    Event("call", page_num)>>
           /\ sections' = OnPageDone(sections, page_num, text, add_page_headings)
           /\ outcomes' = Append(outcomes, Outcome(page_num, "ok"))
    /\ page_i' = page_i + 1
    /\ UNCHANGED <<script, PROJECT_ENDPOINT, isfile, total, start, end_arg,
                   add_page_headings, rpc, client, s_page, e_page, final_md,
                   error, exit_code, output_file, md, all_matches, idx, parts,
                   last, contexts>>
    /\ UNCHANGED <<capVars, ctxVars, normVars>>

\* Lines 227-238: join, strip, normalise the blank lines, return.
VisionAssemble ==
    /\ script = "full_ocr"
    /\ rpc = "loop"
    /\ ~(page_i < e_page)
    /\ final_md' = NormalizePass(Strip(Join(sections, BlankLine)))
    /\ rpc' = "write"
    /\ UNCHANGED <<script, PROJECT_ENDPOINT, isfile, total, start, end_arg,
                   add_page_headings, client, s_page, e_page, page_i, sections,
                   outcomes, events, error, exit_code, output_file, md,
                   all_matches, idx, parts, last, contexts>>
    /\ UNCHANGED <<capVars, ctxVars, normVars>>

\* full_ocr lines 270-273: write the output file; the process ends normally.
VisionWrite ==
    /\ script = "full_ocr"
    /\ rpc = "write"
    /\ output_file' = <<final_md>>
    /\ exit_code' = 0
    /\ rpc' = "exit"
    /\ UNCHANGED <<script, PROJECT_ENDPOINT, isfile, total, start, end_arg,
                   add_page_headings, client, s_page, e_page, page_i, sections,
                   outcomes, events, final_md, error, md, all_matches, idx,
                   parts, last, contexts>>
    /\ UNCHANGED <<capVars, ctxVars, normVars>>

\* image_descriptions line 206: convert_pdf_to_markdown raises; nothing catches
\* it, the interpreter prints the traceback and exits with status 1.
DescConvertRaises ==
    /\ script = "image_descriptions"
    /\ rpc = "main"
    /\ isfile
    /\ error' = "ConvertError"
    /\ exit_code' = 1
    /\ rpc' = "exit"
    /\ UNCHANGED <<script, PROJECT_ENDPOINT, isfile, total, start, end_arg,
                   add_page_headings, client, s_page, e_page, page_i, sections,
                   outcomes, events, final_md, output_file, md, all_matches,
                   idx, parts, last, contexts>>
    /\ UNCHANGED <<capVars, ctxVars, normVars>>

\* image_descriptions line 206: the PDF is converted.
DescConvert ==
    /\ script = "image_descriptions"
    /\ rpc = "main"
    /\ isfile
    /\ md' \in ConvertedDocs
    /\ rpc' = "client"
    /\ UNCHANGED <<script, PROJECT_ENDPOINT, isfile, total, start, end_arg,
                   add_page_headings, client, s_page, e_page, page_i, sections,
                   outcomes, events, final_md, error, exit_code, output_file,
                   all_matches, idx, parts, last, contexts>>
    /\ UNCHANGED <<capVars, ctxVars, normVars>>

\* image_descriptions lines 209-216 and 149-158: the client, or None with a
\* warning when get_openai_client raises (PROJECT_ENDPOINT missing, or the
\* Azure client construction failing); then replace_images_with_text
\* collects the matches and returns the text as it is when there are none.
DescGetClient ==
    /\ script = "image_descriptions"
    /\ rpc = "client"
    /\ IF EndpointMissing(PROJECT_ENDPOINT)
       THEN client' = "none"
       ELSE client' \in {"ready", "none"}
    /\ all_matches' = FindIterFrom("datauri", md, 1)
    /\ parts' = <<>>
    /\ last' = 0
    /\ IF Len(all_matches') = 0
       THEN /\ final_md' = md
            /\ rpc' = "write"
            /\ idx' = idx
       ELSE /\ final_md' = final_md
            /\ rpc' = "images"
            /\ idx' = 1
    /\ UNCHANGED <<script, PROJECT_ENDPOINT, isfile, total, start, end_arg,
                   add_page_headings, s_page, e_page, page_i, sections,
                   outcomes, events, error, exit_code, output_file, md,
                   contexts>>
    /\ UNCHANGED <<capVars, ctxVars, normVars>>

\* lines 182-187: the block that replaces an image
Replacement(desc) ==
    IF desc # <<>>
    THEN ImageBlockLit \o desc \o BlankLine
    ELSE ImageBlockLit \o UnavailableLit \o BlankLine

\* The loop body with `last` left at the start of the match: the text of the
\* image would be copied again after its block.
DescStep_StaleLast(desc, result, called) ==
    LET m == all_matches[idx]
    IN /\ parts' = parts \o <<Slice(md, last, m.start), Replacement(desc)>>
       /\ contexts' = Append(contexts,
                        build_surrounding_context(md, m.start, m.end,
                            DefaultContextBefore, DefaultContextAfter,
                            DefaultMaxContext))
       /\ events' = IF called THEN Append(events, Event("describe", idx)) ELSE events
       /\ outcomes' = Append(outcomes, Outcome(idx, result))
       /\ last' = m.start
       /\ idx' = idx + 1

\* One iteration of the loop of lines 163-190: `desc` is the description
\* ("" after an exception or without a client), `result` what happened.
DescStep(desc, result, called) ==
    LET m == all_matches[idx]
    IN /\ parts' = parts \o <<Slice(md, last, m.start), Replacement(desc)>>
       /\ contexts' = Append(contexts,
                        build_surrounding_context(md, m.start, m.end,
                            DefaultContextBefore, DefaultContextAfter,
                            DefaultMaxContext))
       /\ events' = IF called THEN Append(events, Event("describe", idx)) ELSE events
       /\ outcomes' = Append(outcomes, Outcome(idx, result))
       /\ last' = m.end
       /\ idx' = idx + 1

\* An iteration with a client: describe_image returns a text or raises.
DescImageWithClient ==
    /\ script = "image_descriptions"
    /\ rpc = "images"
    /\ idx <= Len(all_matches)
    /\ client = "ready"
    /\ \/ \E desc \in ImageResponses :
            DescStep(desc, IF desc = <<>> THEN "empty" ELSE "described", TRUE)
       \/ DescStep(<<>>, "raised", TRUE)
    /\ UNCHANGED <<script, PROJECT_ENDPOINT, isfile, total, start, end_arg,
                   add_page_headings, rpc, client, s_page, e_page, page_i,
                   sections, final_md, error, exit_code, output_file, md,
                   all_matches>>
    /\ UNCHANGED <<capVars, ctxVars, normVars>>

\* An iteration without a client (lines 178-180).
DescImageNoClient ==
    /\ script = "image_descriptions"
    /\ rpc = "images"
    /\ idx <= Len(all_matches)
    /\ client = "none"
    /\ DescStep(<<>>, "no_client", FALSE)
    /\ UNCHANGED <<script, PROJECT_ENDPOINT, isfile, total, start, end_arg,
                   add_page_headings, rpc, client, s_page, e_page, page_i,
                   sections, final_md, error, exit_code, output_file, md,
                   all_matches>>
    /\ UNCHANGED <<capVars, ctxVars, normVars>>

\* Lines 192-196: the text after the last image, and the join.
DescFinish ==
    /\ script = "image_descriptions"
    /\ rpc = "images"
    /\ ~(idx <= Len(all_matches))
    /\ parts' = Append(parts, Slice(md, last, Len(md)))
    /\ final_md' = Concat(parts')
    /\ rpc' = "write"
    /\ UNCHANGED <<script, PROJECT_ENDPOINT, isfile, total, start, end_arg,
                   add_page_headings, client, s_page, e_page, page_i, sections,
                   outcomes, events, error, exit_code, output_file, md,
                   all_matches, idx, last, contexts>>
    /\ UNCHANGED <<capVars, ctxVars, normVars>>

\* image_descriptions lines 255-259: write the output file.
DescWrite ==
    /\ script = "image_descriptions"
    /\ rpc = "write"
    /\ output_file' = <<final_md>>
    /\ exit_code' = 0
    /\ rpc' = "exit"
    /\ UNCHANGED <<script, PROJECT_ENDPOINT, isfile, total, start, end_arg,
                   add_page_headings, client, s_page, e_page, page_i, sections,
                   outcomes, events, final_md, error, md, all_matches, idx,
                   parts, last, contexts>>
    /\ UNCHANGED <<capVars, ctxVars, normVars>>

Next ==
    \/ MainFileNotFound
    \/ VisionGetClient
    \/ VisionOpenFails
    \/ VisionOpen
    \/ VisionPageRenderRaises
    \/ VisionPageCapRaises
    \/ VisionPageCallRaises
    \/ VisionPageDone
    \/ VisionAssemble
    \/ VisionWrite
    \/ DescConvertRaises
    \/ DescConvert
    \/ DescGetClient
    \/ DescImageWithClient
    \/ DescImageNoClient
    \/ DescFinish
    \/ DescWrite

Spec == Init /\ [][Next]_vars

(***************************************************************************)
(* Claims about the two programs (checked under Spec).                     *)
(***************************************************************************)
IsPrefix(pre, t) == Len(pre) <= Len(t) /\ SubSeq(t, 1, Len(pre)) = pre

\* The range the arguments select, read off the inputs.
SelStart == IF start = <<>> THEN 1 ELSE IF start[1] < 1 THEN 1 ELSE start[1]
SelEnd == IF end_arg = <<>> THEN total ELSE IF end_arg[1] > total THEN total ELSE end_arg[1]

\* The page loop of full_ocr has been entered.
InPageLoop == script = "full_ocr" /\ rpc \in {"loop", "write"}
\* The page loop of full_ocr is over.
PagesDone ==
    /\ script = "full_ocr"
    /\ rpc = "write" \/ (rpc = "exit" /\ exit_code = 0)

Failed(o) == o.result \in {"render_raised", "cap_raised", "call_raised"}

EventsOf(kind) == SelectSeq(events, LAMBDA ev : ev.ev = kind)

\* C4: whatever pages fail (rendering, capping or the model call raising, on
\* any subset of the pages), the list of fragments holds exactly one fragment
\* per processed page, a failed page contributes the fixed placeholder, every
\* page of the range is rendered, in order, whether or not an earlier page
\* failed, every page that was rendered and capped is sent to the model, and
\* no per-page failure ends the run.
C4_OneFragmentPerPage ==
    (InPageLoop \/ PagesDone) =>
        /\ Len(sections) = Len(outcomes)
        /\ Len(sections) = page_i - SelStart + 1
        /\ PagesDone => Len(sections) = SelEnd - SelStart + 1
        /\ \A k \in 1..Len(outcomes) :
            /\ outcomes[k].item = SelStart + k - 1
            /\ Failed(outcomes[k]) =>
                    sections[k] = PageHeadingLit \o ToStr(outcomes[k].item)
                                    \o BlankLine \o PlaceholderBody
        /\ EventsOf("render") =
                [k \in 1..Len(outcomes) |-> Event("render", SelStart + k - 1)]
        /\ \A k \in 1..Len(outcomes) :
                (outcomes[k].result \in {"ok", "call_raised"})
                    <=> (\E n \in 1..Len(events) :
                            events[n] = Event("call", outcomes[k].item))
        /\ error = ""
        /\ exit_code \in {-1, 0}

\* A run has finished in which the first and the last page failed and a page
\* after a failed page succeeded.
C4_Witness ==
    /\ PagesDone
    /\ exit_code = 0
    /\ Len(outcomes) >= 3
    /\ Failed(outcomes[1])
    /\ outcomes[2].result = "ok"
    /\ Failed(outcomes[Len(outcomes)])

\* C5: with s = max(1, start) (1 when absent), e = min(end, total) (total
\* when absent) and s <= e, the run produces exactly e - s + 1 fragments, for
\* the pages s, s + 1, ..., e in ascending order, and with headings enabled
\* the fragment of page k begins with "## Page k".
C5_RangeFragments ==
    PagesDone =>
        /\ SelStart <= SelEnd
        /\ Len(sections) = SelEnd - SelStart + 1
        /\ Len(outcomes) = Len(sections)
        /\ \A k \in 1..Len(sections) :
            /\ outcomes[k].item = SelStart + k - 1
            /\ add_page_headings =>
                    IsPrefix(PageHeadingLit \o ToStr(SelStart + k - 1), sections[k])

\* A 4-page document with start=2, end=3 and headings has given two fragments.
C5_Witness ==
    /\ PagesDone
    /\ total = 4
    /\ start = <<2>>
    /\ end_arg = <<3>>
    /\ add_page_headings
    /\ Len(sections) = 2
    /\ outcomes[1].result = "ok"

\* C7 as stated: with PROJECT_ENDPOINT unset, either program aborts with a
\* non-zero exit status, processes no item and writes no output file.
C7_MissingEndpointFatal ==
    ~PROJECT_ENDPOINT =>
        /\ rpc = "exit" => exit_code # 0
        /\ outcomes = <<>>
        /\ events = <<>>
        /\ output_file = <<>>

\* C7 amended: with PROJECT_ENDPOINT unset, full_ocr aborts with a non-zero
\* exit status, processes no page and writes no output file; image_descriptions
\* does not abort for it: it runs without a client, makes no model call,
\* replaces every image by the description-unavailable block, writes the output
\* file and exits with status 0 (unless the conversion itself raised).
C7_MissingEndpointAmended ==
    ~PROJECT_ENDPOINT =>
        /\ script = "full_ocr" =>
            /\ rpc = "exit" => exit_code \in {1, 2}
            /\ rpc \in {"main", "exit"}
            /\ outcomes = <<>>
            /\ events = <<>>
            /\ sections = <<>>
            /\ output_file = <<>>
        /\ script = "image_descriptions" =>
            /\ client # "ready"
            /\ events = <<>>
            /\ \A k \in 1..Len(outcomes) :
                /\ outcomes[k].result = "no_client"
                /\ parts[2 * k] = ImageBlockLit \o UnavailableLit \o BlankLine
            /\ (rpc = "exit" /\ error = "") =>
                /\ exit_code = 0
                /\ output_file = <<final_md>>
                /\ Len(outcomes) = Len(all_matches)
            /\ rpc = "exit" => (exit_code = 0 <=> error = "")

\* image_descriptions has run to the end without PROJECT_ENDPOINT on a
\* document with an image and has written its output.
C7_Witness ==
    /\ ~PROJECT_ENDPOINT
    /\ script = "image_descriptions"
    /\ rpc = "exit"
    /\ exit_code = 0
    /\ Len(outcomes) >= 1
    /\ output_file # <<>>

\* C8: when max(1, start) > min(end, total), full_ocr aborts with an error
\* (exit status 2) before any page is rendered or any model call is made and
\* produces no fragment and no output; no run with a valid range aborts that
\* way, and once a page has been processed the run never aborts.
C8_InvalidRangeAborts ==
    script = "full_ocr" =>
        /\ (SelStart > SelEnd) =>
            /\ rpc \in {"main", "open", "exit"}
            /\ events = <<>>
            /\ sections = <<>>
            /\ output_file = <<>>
            /\ rpc = "exit" => exit_code \in {1, 2}
            /\ (rpc = "exit" /\ error \notin {"FileNotFound", "RuntimeError", "ClientError", "OpenError"})
                    => (error = "ValueError" /\ exit_code = 2)
        /\ error = "ValueError" => (SelStart > SelEnd /\ exit_code = 2)
        /\ (events # <<>> \/ outcomes # <<>>) => (error = "" /\ exit_code \in {-1, 0})

\* The run has aborted on a start page beyond the last page.
C8_Witness ==
    /\ script = "full_ocr"
    /\ error = "ValueError"
    /\ exit_code = 2
    /\ total >= 1
    /\ start # <<>>
    /\ start[1] > total

\* The text the replacement is to produce, read off the original text: from
\* offset `pos`, the text up to image k, the block of image k, and so on; the
\* rest of the text after the last image.
RECURSIVE RebuiltFrom(_, _, _)
RebuiltFrom(descs, k, pos) ==
    IF k > Len(all_matches)
    THEN Slice(md, pos, Len(md))
    ELSE Slice(md, pos, all_matches[k].start)
            \o ImageBlockLit
            \o (IF descs[k] = <<>> THEN UnavailableLit ELSE descs[k])
            \o BlankLine
            \o RebuiltFrom(descs, k + 1, all_matches[k].end)

\* The descriptions that agree with what happened to each image: a text of
\* the model for a described image, none for a failed one.
DescriptionsOf ==
    { descs \in [1..Len(all_matches) -> ImageResponses] :
        \A k \in 1..Len(all_matches) :
            (descs[k] # <<>>) <=> (outcomes[k].result = "described") }

\* replace_images_with_text has returned.
Replaced == script = "image_descriptions" /\ rpc \in {"write", "exit"} /\ error = ""

\* C11: whatever the descriptions do (raise, come back empty, no client), the
\* text returned by replace_images_with_text is the original text with each
\* data-URI image replaced, in order, by exactly one "> Image: ..." block (the
\* description, or the unavailable placeholder), every character outside the
\* images kept in place; and the context of each image is the one built from
\* the offsets of the image in the original text.
C11_ImagesReplacedInOrder ==
    Replaced =>
        /\ Len(outcomes) = Len(all_matches)
        /\ \A k \in 1..Len(all_matches) : outcomes[k].item = k
        /\ \E descs \in DescriptionsOf : final_md = RebuiltFrom(descs, 1, 0)
        /\ Len(contexts) = Len(all_matches)
        /\ \A k \in 1..Len(all_matches) :
              contexts[k] = build_surrounding_context(md, all_matches[k].start,
                                all_matches[k].end, DefaultContextBefore,
                                DefaultContextAfter, DefaultMaxContext)

\* Two images with text between them, one described and one not, written out.
C11_Witness ==
    /\ Replaced
    /\ exit_code = 0
    /\ Len(all_matches) = 2
    /\ all_matches[1].end < all_matches[2].start
    /\ outcomes[1].result = "described"
    /\ outcomes[2].result \in {"raised", "empty"}
    /\ output_file = <<final_md>>
    /\ final_md # md

=============================================================================
